---------------------------- MODULE Spec2Model ----------------------------
(***************************************************************************)
(* Deal discovery pipeline of the eBay card scanner.                       *)
(*                                                                         *)
(* Two state machines share this module:                                   *)
(*   SpecAuth  the credential provider (app/ebay_auth.py) and the request  *)
(*             operations that use the network (app/ebay_browse.py         *)
(*             search_browse, app/scanner.py ebay_browse_search);          *)
(*   Spec      the three scan programs that write the deals table          *)
(*             (app/db.py run, app/main.py run, app/scanner.py run).       *)
(* Money is kept in cents, ratios in fixed point; the clocks are integers. *)
(***************************************************************************)
EXTENDS Integers, Sequences, FiniteSets, TLC

None == "None"

-----------------------------------------------------------------------------
(* Bounds of the model *)

\* last instant of the credential provider's clock (seconds)
MaxNow == 90
\* seconds that pass in one step of that clock
TickStep == 30

-----------------------------------------------------------------------------
(* Program constants of app/ebay_auth.py *)

\* `_cached.expires_at_epoch - _now() > 60`
SafetyMargin == 60
\* `for _ in range(3)`
MaxTokenAttempts == 3
\* `payload.get("expires_in", 7200)`
DefaultExpiresIn == 7200

VARIABLES
    now,        \* ebay_auth._now(): epoch seconds
    cached,     \* ebay_auth._cached: <<>> (None) or <<Token>>
    env,        \* os.environ: which of the secrets are set (non-blank)
    upstream,   \* "any": the endpoints answer freely; "always429": every answer is 429
    pc,         \* position of the running request operation: "idle", "post", "get"
    op,         \* the request operation that is running or ran last
    attempts,   \* failed passes of the retry loop of get_app_token in this call
    posts,      \* POSTs to the token endpoint made by this operation
    gets,       \* GETs to the search endpoint made by this operation
    entry,      \* what get_app_token found when it was entered
    out         \* outcome the operation that just completed hands to its caller

authVars == <<now, cached, env, upstream, pc, op, attempts, posts, gets, entry, out>>

VARIABLES
    variant,    \* the scan program that is deployed: "db", "main" or "scanner"
    world,      \* the marketplace: what the search endpoints answer, per item id
    deals,      \* the rows of the deals table
    clock,      \* scanner.now_utc(), in hours
    max_save,   \* scanner.MAX_TOTAL_RESULTS_TO_SAVE (read from the environment)
    last,       \* the run that has just completed: the table before it, its clock
    res         \* what the function of the program applied last returned

scanVars == <<variant, world, deals, clock, max_save, last, res>>

vars == <<authVars, scanVars>>

-----------------------------------------------------------------------------
(* app/ebay_auth.py *)

\* the payload carries no expires_in
NoField == -1

\* values of expires_in the token endpoint reports
ExpiresInValues == {60, 90, NoField}

\* answers of the token endpoint: an HTTP error, a 200 without access_token,
\* or a 200 carrying a token and (maybe) expires_in
TokenResponses ==
    [status : {429, 500}, has_token : {FALSE}, expires_in : {NoField}]
    \cup [status : {200}, has_token : {FALSE}, expires_in : {NoField}]
    \cup [status : {200}, has_token : {TRUE}, expires_in : ExpiresInValues]

\* answers of the search endpoint
SearchStatuses == {200, 401, 429, 500}

AllowedToken(r) == upstream = "always429" => r.status = 429
AllowedStatus(s) == upstream = "always429" => s = 429

\* dataclass Token
Token(access_token, expires_at_epoch) ==
    [access_token |-> access_token, expires_at_epoch |-> expires_at_epoch]

\* the cache test of get_app_token, wrongly ignoring the expiry
CacheFresh_Stale == cached # <<>>

\* the cache test of get_app_token, with the margin wrongly dropped
CacheFresh_NoMargin == cached # <<>> /\ cached[1].expires_at_epoch - now > 0

\* `if _cached and _cached.expires_at_epoch - _now() > 60`
CacheFresh == cached # <<>> /\ cached[1].expires_at_epoch - now > SafetyMargin

\* the secrets test, wrongly passing when only one is missing
SecretsMissing_And == ~env.client_id /\ ~env.client_secret

\* `if not client_id or not client_secret`
SecretsMissing == ~env.client_id \/ ~env.client_secret

\* the retry loop, wrongly left without its bound
LoopExhausted_Never(n) == FALSE

\* `for _ in range(3)`: the loop ends after the third failed pass
LoopExhausted(n) == n >= MaxTokenAttempts

\* `int(payload.get("expires_in", 7200))`
ExpiresIn(r) == IF r.expires_in = NoField THEN DefaultExpiresIn ELSE r.expires_in

\* what the call finds on entry: the cache, the clock, the secrets
Entry == [cached |-> cached, now |-> now,
          client_id |-> env.client_id, client_secret |-> env.client_secret]

OutToken(tok, from) == [kind |-> "token", access_token |-> tok, from |-> from]
OutError(why) == [kind |-> "error", why |-> why]
OutItems == [kind |-> "items"]

\* lines 32-41 of get_app_token: the cache test, the secrets test; then the loop
EnterGetAppToken(caller) ==
    /\ op' = caller
    /\ entry' = Entry
    /\ attempts' = 0
    /\ posts' = 0
    /\ gets' = 0
    /\ UNCHANGED <<now, cached, env, upstream, scanVars>>
    /\ IF CacheFresh
       THEN /\ pc' = IF caller = "search_browse" THEN "get" ELSE "idle"
            /\ out' = OutToken(cached[1].access_token, "cache")
       ELSE IF SecretsMissing
       THEN /\ pc' = "idle"
            /\ out' = OutError("secrets")
       ELSE /\ pc' = "post"
            /\ out' = [kind |-> "none"]

\* a caller invokes get_app_token()
get_app_token ==
    /\ pc = "idle"
    /\ EnterGetAppToken("get_app_token")

\* one pass of the retry loop, lines 56-68: the POST, then either the return of
\* the new token or the caught exception and the sleep
TokenAttempt ==
    /\ pc = "post"
    /\ \E r \in TokenResponses :
        /\ AllowedToken(r)
        /\ posts' = posts + 1
        /\ UNCHANGED <<now, env, upstream, op, gets, entry, scanVars>>
        /\ IF r.status = 200 /\ r.has_token
           THEN /\ cached' = <<Token([exp |-> now + ExpiresIn(r)], now + ExpiresIn(r))>>
                /\ out' = OutToken([exp |-> now + ExpiresIn(r)], "fetch")
                /\ pc' = IF op = "search_browse" THEN "get" ELSE "idle"
                /\ attempts' = attempts
           ELSE /\ cached' = cached
                /\ attempts' = attempts + 1
                /\ IF LoopExhausted(attempts + 1)
                   THEN pc' = "idle" /\ out' = OutError("oauth")
                   ELSE pc' = "post" /\ out' = out

-----------------------------------------------------------------------------
(* app/ebay_browse.py *)

\* search_browse: _headers() calls get_app_token(); an exception of it propagates
search_browse ==
    /\ pc = "idle"
    /\ EnterGetAppToken("search_browse")

\* search_browse, lines 40-45: the GET; 401 raises RuntimeError, any other
\* status >= 400 raises through raise_for_status(), 200 returns the items
SearchGet ==
    /\ pc = "get"
    /\ \E s \in SearchStatuses :
        /\ AllowedStatus(s)
        /\ gets' = gets + 1
        /\ pc' = "idle"
        /\ out' = IF s = 200 THEN OutItems
                  ELSE IF s = 401 THEN OutError("401") ELSE OutError("http")
        /\ UNCHANGED <<now, cached, env, upstream, op, attempts, posts, entry, scanVars>>

-----------------------------------------------------------------------------
(* app/scanner.py: the search request *)

\* ebay_browse_search: build_headers() raises without EBAY_OAUTH_TOKEN; one GET;
\* a status >= 400 raises RuntimeError, otherwise the JSON body is returned
ebay_browse_search ==
    /\ pc = "idle"
    /\ op' = "ebay_browse_search"
    /\ entry' = Entry
    /\ attempts' = 0
    /\ posts' = 0
    /\ pc' = "idle"
    /\ UNCHANGED <<now, cached, env, upstream, scanVars>>
    /\ IF ~env.oauth_token
       THEN gets' = 0 /\ out' = OutError("no token")
       ELSE \E s \in SearchStatuses :
               /\ AllowedStatus(s)
               /\ gets' = 1
               /\ out' = IF s >= 400 THEN OutError("http") ELSE OutItems

-----------------------------------------------------------------------------
(* The environment of the request operations *)

\* time passes (also during time.sleep(1) between two passes of the loop); the
\* caller has taken the outcome of a completed operation by then
Tick ==
    /\ now + TickStep <= MaxNow
    /\ now' = now + TickStep
    /\ out' = [kind |-> "none"]
    /\ UNCHANGED <<cached, env, upstream, pc, op, attempts, posts, gets, entry, scanVars>>

\* the process environment is changed between two operations (os.environ is
\* read anew by every call of get_app_token)
SetEnv ==
    /\ pc = "idle"
    /\ \E id \in BOOLEAN, secret \in BOOLEAN :
        /\ <<id, secret>> # <<env.client_id, env.client_secret>>
        /\ env' = [env EXCEPT !.client_id = id, !.client_secret = secret]
    /\ UNCHANGED <<now, cached, upstream, pc, op, attempts, posts, gets, entry, out, scanVars>>

-----------------------------------------------------------------------------
(* The marketplace and the deals table                                       *)
(*                                                                           *)
(* Prices are whole dollars kept in cents.  db.py and main.py compute their  *)
(* profit in floating point; the model keeps it exactly, in units of 1/400   *)
(* dollar (every coefficient of the formula is a multiple of it), their roi  *)
(* in units of 1/10000 and their score in hundredths, truncated.  scanner.py *)
(* rounds to cents itself (money_round).  The columns created_at and         *)
(* updated_at are not kept: no operation reads them.                         *)

\* last instant of the scanner's clock (hours)
MaxClock == 2
\* most hours that pass between the normalisation of a run and its prune
MaxElapsed == 2

ItemIds == {"i1", "i2"}
\* the order in which the search endpoint lists the items
IdOrder == <<"i1", "i2">>

TheTitle == "2023 Prizm Rookie Auto /25"
\* the title of a lot
LotTitle == "Huge lot of 50 rookie cards"

\* the queries of a program, in the order run() issues them; `cheap`: the query
\* is one of cheap_queries (db.py: max_price 80; main.py: the cheap filter)
Db_queries == <<[q |-> "raw rookie card", cheap |-> TRUE],
                [q |-> "PSA graded card", cheap |-> FALSE]>>
Main_queries == <<[q |-> "sports card lot", cheap |-> TRUE],
                  [q |-> "PSA graded card", cheap |-> FALSE]>>
Scanner_queries == <<[q |-> "sports card", cheap |-> FALSE],
                     [q |-> "rookie card", cheap |-> FALSE]>>

Queries == IF variant = "db" THEN Db_queries
           ELSE IF variant = "main" THEN Main_queries ELSE Scanner_queries

\* a listing of the marketplace: its price and shipping options (cents), the end
\* of the auction (hour), the prices of the sold items the comps query returns,
\* the queries (positions in Queries) that show it and the number of pages of
\* each answer that do; whether its summary carries itemId and itemWebUrl, its
\* title (None: absent), its own shippingCost (<<>>: absent) and whether the
\* comps request for it is answered (compsOk) or fails
NotListed == [listed |-> FALSE, price |-> 0, shipping |-> <<>>, endDate |-> 0,
              comps |-> <<>>, at |-> {}, pages |-> 1, hasId |-> TRUE,
              title |-> TheTitle, hasUrl |-> TRUE, shippingCost |-> <<>>,
              compsOk |-> TRUE]

Placements == {{1}, {2}, {1, 2}}

Listings(v) ==
    IF v = "scanner"
    THEN [listed : {TRUE}, price : {2000}, shipping : {<<>>}, endDate : {1, 2},
          comps : {<<10000>>, <<4000>>}, at : {{1}, {1, 2}}, pages : {1},
          hasId : {TRUE}, title : {TheTitle}, hasUrl : {TRUE},
          shippingCost : {<<>>}, compsOk : {TRUE}]
    ELSE [listed : {TRUE}, price : {2000, 20000}, shipping : {<<>>, <<500>>},
          endDate : {0}, comps : {<<>>}, at : Placements, pages : {1},
          hasId : {TRUE}, title : {TheTitle}, hasUrl : {TRUE},
          shippingCost : {<<>>}, compsOk : {TRUE}]

NoWorld == [i \in ItemIds |-> NotListed]

ItemUrl(id) == IF id = "i1" THEN "https://www.ebay.com/itm/i1"
               ELSE "https://www.ebay.com/itm/i2"

\* the item summary the search endpoint returns for a listed item
RawItem(id) ==
    [itemId |-> IF world[id].hasId THEN id ELSE None,
     title |-> world[id].title,
     itemWebUrl |-> IF world[id].hasUrl THEN ItemUrl(id) ELSE None,
     price |-> world[id].price,
     shippingOptions |-> world[id].shipping,
     shippingCost |-> world[id].shippingCost,
     compsOk |-> world[id].compsOk,
     buyingOptions |-> IF variant = "scanner" THEN {"AUCTION"} ELSE {"FIXED_PRICE"},
     itemEndDate |-> world[id].endDate,
     bidCount |-> 0,
     comps |-> world[id].comps]

RECURSIVE ItemsFrom(_, _, _)
\* the items of IdOrder[k..] that page number pg (from 0) of query number qi shows
ItemsFrom(qi, pg, k) ==
    IF k > Len(IdOrder) THEN <<>>
    ELSE LET id == IdOrder[k]
         IN (IF world[id].listed /\ qi \in world[id].at /\ pg < world[id].pages
             THEN <<RawItem(id)>> ELSE <<>>)
            \o ItemsFrom(qi, pg, k + 1)

\* data.get("itemSummaries") of the answer to query number qi at `offset`; the
\* endpoint serves pages of 50
ItemSummaries(qi, offset) == ItemsFrom(qi, offset \div 50, 1)

---------------------------------------------------------------------------
(* Arithmetic helpers *)

Min(a, b) == IF a <= b THEN a ELSE b
Max(a, b) == IF a >= b THEN a ELSE b

\* n / d rounded to the nearest integer (d > 0)
RoundDiv(n, d) ==
    IF n >= 0 THEN (2 * n + d) \div (2 * d) ELSE -((2 * (-n) + d) \div (2 * d))

\* n / d truncated toward zero (d > 0)
TruncDiv(n, d) == IF n >= 0 THEN n \div d ELSE -((-n) \div d)

RECURSIVE SeqMin(_)
SeqMin(s) == IF Len(s) = 1 THEN s[1] ELSE Min(s[1], SeqMin(Tail(s)))

IdsOf(table) == {r.item_id : r \in table}

\* INSERT ... ON CONFLICT, with the conflict clause wrongly left out of the table
Upsert_NoConflict(table, row) == table \cup {row}

\* an upsert wrongly written as "delete the row if it is there, else insert"
Upsert_DeleteOnConflict(table, row) ==
    IF row.item_id \in IdsOf(table) THEN {r \in table : r.item_id # row.item_id}
    ELSE table \cup {row}

\* INSERT ... ON CONFLICT (item_id) DO UPDATE SET <every column> = EXCLUDED.<column>
Upsert(table, row) == {r \in table : r.item_id # row.item_id} \cup {row}

---------------------------------------------------------------------------
(* Cost assumptions shared by app/db.py and app/main.py, in percent and cents *)

SELL_FEE_RATE == 15
OUTBOUND_SHIP_SUPPLIES == 650
BUY_TAX_RATE == 6

\* shippingOptions[0].shippingCost.value, 0.0 when there is no option
FirstShipping(item) ==
    IF item.shippingOptions # <<>> THEN item.shippingOptions[1] ELSE 0

\* buy_price * (1 + BUY_TAX_RATE) + buy_shipping, in 1/400 dollar
BuyIn400(bp, bs) == (bp \div 100) * (4 * (100 + BUY_TAX_RATE)) + bs * 4

\* resale * (1 - SELL_FEE_RATE) - OUTBOUND_SHIP_SUPPLIES - buy_in, in 1/400
\* dollar, for a resale estimate of mult100/100 times the price
Profit400(bp, bs, mult100) ==
    (bp \div 100) * ((mult100 * (100 - SELL_FEE_RATE)) \div 25)
        - OUTBOUND_SHIP_SUPPLIES * 4 - BuyIn400(bp, bs)

---------------------------------------------------------------------------
(* app/db.py *)

\* MIN_PROFIT = 20.0, in cents
Db_MIN_PROFIT == 2000
\* max_price=80.0 of the cheap queries, in cents
Db_CHEAP_MAX_PRICE == 8000

\* resale_multiplier, times 100
resale_multiplier(buy_price) ==
    IF buy_price < 1500 THEN 350
    ELSE IF buy_price < 2500 THEN 300
    ELSE IF buy_price < 5000 THEN 250
    ELSE IF buy_price < 10000 THEN 200 ELSE 145

\* expected_profit: (profit in 1/400 dollar, roi in 1/10000)
Db_expected_profit(buy_price, buy_shipping) ==
    LET profit == Profit400(buy_price, buy_shipping, resale_multiplier(buy_price))
        bi == BuyIn400(buy_price, buy_shipping)
    IN [profit |-> profit,
        roi |-> IF bi > 0 THEN TruncDiv(profit * 10000, bi) ELSE 0]

\* score_deal, in hundredths
score_deal(est_profit, roi, buy_price, listing_type) ==
    (Max(0, roi) * 120) \div 100
    + TruncDiv(est_profit * 60, 400)
    + (IF buy_price > 0 THEN 800000 \div (100 + buy_price) ELSE 0)
    + (IF listing_type = "AUCTION" THEN 400 ELSE 0)

Db_listing_type(item) ==
    IF "AUCTION" \in item.buyingOptions THEN "AUCTION"
    ELSE IF "FIXED_PRICE" \in item.buyingOptions THEN "FIXED_PRICE"
    ELSE IF "BEST_OFFER" \in item.buyingOptions THEN "BEST_OFFER" ELSE "UNKNOWN"

\* the gate of process_query, wrongly comparing against zero
Db_BelowMin_Zero(est_profit) == est_profit < 0

\* `if est_profit < MIN_PROFIT: continue`
Db_BelowMin(est_profit) == est_profit < Db_MIN_PROFIT * 4

\* the row process_query writes for an item
Db_row(item) ==
    LET pr == Db_expected_profit(item.price, FirstShipping(item))
        lt == Db_listing_type(item)
    IN [item_id |-> item.itemId, title |-> item.title, item_url |-> item.itemWebUrl,
        buy_price |-> item.price, buy_shipping |-> FirstShipping(item),
        est_profit |-> pr.profit, roi |-> pr.roi,
        score |-> score_deal(pr.profit, pr.roi, item.price, lt),
        listing_type |-> lt]

\* the body of the item loop of process_query: the item is skipped or upserted
Db_keeps(item, cheap) ==
    /\ item.itemId # None /\ item.title # None /\ item.itemWebUrl # None
    /\ ~(cheap /\ item.price > Db_CHEAP_MAX_PRICE)
    /\ ~Db_BelowMin(Db_expected_profit(item.price, FirstShipping(item)).profit)

RECURSIVE Db_items(_, _, _)
Db_items(table, items, cheap) ==
    IF items = <<>> THEN table
    ELSE Db_items(IF Db_keeps(Head(items), cheap) THEN Upsert(table, Db_row(Head(items)))
                  ELSE table,
                  Tail(items), cheap)

\* process_query for query number qi
process_query(table, qi) == Db_items(table, ItemSummaries(qi, 0), Queries[qi].cheap)

RECURSIVE Db_run(_, _)
\* the two query loops of run()
Db_run(table, qi) ==
    IF qi > Len(Queries) THEN table ELSE Db_run(process_query(table, qi), qi + 1)

---------------------------------------------------------------------------
(* app/main.py, amounts in cents *)

MIN_PROFIT_MAIN == 2500
MIN_PROFIT_CHEAP == 1000
CHEAP_MAX_BUY_PRICE == 6000
CHEAP_MAX_BUY_IN == 7500
MAX_ITEMS_PER_QUERY == 50

\* expected_profit: resale estimate 1.45 times the price; in 1/400 dollar
Main_expected_profit(buy_price, buy_shipping) == Profit400(buy_price, buy_shipping, 145)

\* roi_from_profit, wrongly answering None for every buy-in
roi_from_profit_None(est_profit, buy_price, buy_shipping) == <<>>

\* roi_from_profit, in 1/10000; None when the buy-in is not positive
roi_from_profit(est_profit, buy_price, buy_shipping) ==
    LET bi == BuyIn400(buy_price, buy_shipping)
    IN IF bi <= 0 THEN <<>> ELSE <<TruncDiv(est_profit * 10000, bi)>>

is_cheap_candidate(buy_price, buy_shipping) ==
    /\ buy_price > 0
    /\ buy_price <= CHEAP_MAX_BUY_PRICE
    /\ BuyIn400(buy_price, buy_shipping) <= CHEAP_MAX_BUY_IN * 4

\* qualifies, wrongly keeping every candidate with a positive profit
qualifies_AnyProfit(est_profit, buy_price, buy_shipping) ==
    [keep |-> est_profit > 0, cheap |-> FALSE]

\* qualifies: (keep, cheap_flag)
qualifies(est_profit, buy_price, buy_shipping) ==
    IF est_profit >= MIN_PROFIT_MAIN * 4 THEN [keep |-> TRUE, cheap |-> FALSE]
    ELSE IF is_cheap_candidate(buy_price, buy_shipping)
            /\ est_profit >= MIN_PROFIT_CHEAP * 4
    THEN [keep |-> TRUE, cheap |-> TRUE]
    ELSE [keep |-> FALSE, cheap |-> FALSE]

\* score_from, in hundredths
score_from(est_profit, roi, cheap) ==
    TruncDiv(est_profit, 4)
    + (IF roi = <<>> THEN 0 ELSE TruncDiv(roi[1], 10))
    + (IF cheap THEN 500 ELSE 0)

Main_listing_type(item) ==
    IF "AUCTION" \in item.buyingOptions THEN "auction"
    ELSE IF "FIXED_PRICE" \in item.buyingOptions THEN "fixed" ELSE "unknown"

\* the item's own shippingCost.value, 0.0 when absent
OwnShipping(item) == IF item.shippingCost # <<>> THEN item.shippingCost[1] ELSE 0

\* _extract_shipping: the first option; the item's own shippingCost when that
\* is 0.0
Main_extract_shipping(item) ==
    IF FirstShipping(item) = 0 THEN OwnShipping(item) ELSE FirstShipping(item)

Main_row(item) ==
    LET bs == Main_extract_shipping(item)
        p == Main_expected_profit(item.price, bs)
        r == roi_from_profit(p, item.price, bs)
    IN [item_id |-> item.itemId, title |-> item.title, item_url |-> item.itemWebUrl,
        buy_price |-> item.price, buy_shipping |-> bs,
        est_profit |-> p, roi |-> r,
        score |-> score_from(p, r, qualifies(p, item.price, bs).cheap),
        listing_type |-> Main_listing_type(item)]

\* the body of the item loop of run(): the item is skipped or upserted
Main_keeps(item, cheap) ==
    LET bs == Main_extract_shipping(item)
    IN /\ item.itemId # None /\ item.title # None /\ item.itemWebUrl # None
       /\ ~(cheap /\ item.price > CHEAP_MAX_BUY_PRICE)
       /\ ~(cheap /\ BuyIn400(item.price, bs) > CHEAP_MAX_BUY_IN * 4)
       /\ qualifies(Main_expected_profit(item.price, bs), item.price, bs).keep

RECURSIVE Main_items(_, _, _)
Main_items(table, items, cheap) ==
    IF items = <<>> THEN table
    ELSE Main_items(IF Main_keeps(Head(items), cheap)
                    THEN Upsert(table, Main_row(Head(items))) ELSE table,
                    Tail(items), cheap)

RECURSIVE Main_run(_, _)
\* the query loop of run(); at most MAX_ITEMS_PER_QUERY items of an answer are read
Main_run(table, qi) ==
    IF qi > Len(Queries) THEN table
    ELSE LET items == ItemSummaries(qi, 0)
             read == SubSeq(items, 1, Min(Len(items), MAX_ITEMS_PER_QUERY))
         IN Main_run(Main_items(table, read, Queries[qi].cheap), qi + 1)

---------------------------------------------------------------------------
(* app/scanner.py: tuning knobs (defaults), amounts in cents *)

MAX_PRICE_USD == 15000
MIN_BUY_PRICE_USD == 1000
MAX_ITEM_COUNT_PER_QUERY == 200
ENDING_SOON_HOURS == 48
MIN_EST_PROFIT_USD == 1000
\* MIN_ROI = 0.8, in hundredths
MIN_ROI == 80
\* the default of MAX_TOTAL_RESULTS_TO_SAVE
DEFAULT_MAX_TOTAL_RESULTS_TO_SAVE == 250
\* EBAY_FEE_RATE = 0.1325, in 1/10000
EBAY_FEE_RATE == 1325
EBAY_ORDER_FIXED_FEE == 30
\* FALLBACK_BASE_MULTIPLIER = 1.6, in hundredths
FALLBACK_BASE_MULTIPLIER == 160
\* `limit = min(50, ...)`
PAGE_LIMIT == 50
\* execute_values(..., page_size=200)
PAGE_SIZE == 200

\* the values MAX_TOTAL_RESULTS_TO_SAVE is run with: a small one, under which
\* the cap and the early stop act on lists of two rows, and the default
MaxSaveValues == {1, DEFAULT_MAX_TOTAL_RESULTS_TO_SAVE}

\* extract_price_and_ship: the price; the cheapest shipping option, or the
\* item's own shippingCost when that is 0
extract_price_and_ship(item) ==
    LET best == IF item.shippingOptions # <<>> THEN SeqMin(item.shippingOptions) ELSE 0
    IN [price |-> item.price,
        ship |-> IF best = 0 THEN OwnShipping(item) ELSE best]

\* rarity_signals of the titles of the model (substring and pattern tests of
\* the lower-cased title)
rarity_signals(title) ==
    IF title = TheTitle
    THEN [auto |-> 1, patch |-> 0, numbered |-> 1, refractor |-> 1, short_print |-> 0,
          color |-> 0, case_hit |-> 0, rookie |-> 1, graded |-> 0, serial |-> 25]
    ELSE IF title = LotTitle
    THEN [auto |-> 0, patch |-> 0, numbered |-> 0, refractor |-> 0, short_print |-> 0,
          color |-> 0, case_hit |-> 0, rookie |-> 1, graded |-> 0, serial |-> 0]
    ELSE [auto |-> 0, patch |-> 0, numbered |-> 0, refractor |-> 0, short_print |-> 0,
          color |-> 0, case_hit |-> 0, rookie |-> 0, graded |-> 0, serial |-> 0]

\* compute_fallback_multiplier, in hundredths (serial 0: no serial number)
compute_fallback_multiplier(sig) ==
    LET mult == FALLBACK_BASE_MULTIPLIER
                + sig.case_hit * 130 + sig.auto * 60 + sig.patch * 50
                + sig.short_print * 40 + sig.refractor * 25 + sig.color * 15
                + sig.numbered * 35 + sig.rookie * 20
                + (IF sig.serial <= 0 THEN 0
                   ELSE IF sig.serial <= 10 THEN 100
                   ELSE IF sig.serial <= 25 THEN 70
                   ELSE IF sig.serial <= 50 THEN 45
                   ELSE IF sig.serial <= 99 THEN 25 ELSE 10)
                - sig.graded * 15
    IN Max(110, mult)

RECURSIVE InsertAsc(_, _)
InsertAsc(s, x) ==
    IF s = <<>> THEN <<x>>
    ELSE IF x < Head(s) THEN <<x>> \o s ELSE <<Head(s)>> \o InsertAsc(Tail(s), x)

\* prices.sort(), wrongly left out
SortAsc_Off(s) == s

RECURSIVE SortAsc(_)
\* prices.sort()
SortAsc(s) == IF s = <<>> THEN <<>> ELSE InsertAsc(SortAsc(SubSeq(s, 1, Len(s) - 1)), s[Len(s)])

\* the positive comp prices, in the order returned
PositivePrices(comps) == SelectSeq(comps, LAMBDA v : v > 0)

\* ebay_browse_sold_comps, wrongly answering with comps when the request failed
ebay_browse_sold_comps_IgnoresFailure(item) == item.comps

\* ebay_browse_sold_comps: the prices of the sold items, or None (here <<>>, which
\* the caller treats alike: `if comps:`) when the request fails
ebay_browse_sold_comps(item) == IF item.compsOk THEN item.comps ELSE <<>>

\* estimate_market_value with a minimum sample of five comps, below which it
\* answers 0
estimate_market_value_MinSample(item, buy_price, ship) ==
    LET prices == SortAsc(PositivePrices(ebay_browse_sold_comps(item)))
    IN IF Len(prices) >= 5
       THEN [market_value |-> RoundDiv(prices[(Len(prices) \div 2) + 1] * 92, 100),
             comp_median |-> prices[(Len(prices) \div 2) + 1], method |-> "sold_comps"]
       ELSE [market_value |-> 0, comp_median |-> 0, method |-> "fallback"]

\* estimate_market_value: (market_value, comp_median, method), cents
estimate_market_value(item, buy_price, ship) ==
    LET prices == SortAsc(PositivePrices(ebay_browse_sold_comps(item)))
    IN IF prices # <<>>
       THEN LET mid == prices[(Len(prices) \div 2) + 1]
            IN [market_value |-> RoundDiv(mid * 92, 100), comp_median |-> mid,
                method |-> "sold_comps"]
       ELSE [market_value |->
                 RoundDiv((buy_price + ship)
                          * compute_fallback_multiplier(rarity_signals(item.title)), 100),
             comp_median |-> 0, method |-> "fallback"]

\* compute_profit_and_roi: (profit in cents, roi in hundredths)
compute_profit_and_roi(market_value, buy, ship) ==
    LET cost == buy + ship
        \* (gross - fees - cost) in 1/10000 cent
        num == market_value * (10000 - EBAY_FEE_RATE)
               - EBAY_ORDER_FIXED_FEE * 10000 - cost * 10000
    IN [profit |-> RoundDiv(num, 10000),
        roi |-> IF cost > 0 THEN RoundDiv(num, 100 * cost) ELSE 0]

\* compute_score, in hundredths
compute_score(profit, roi, hours_left, bid_count, sig) ==
    LET rarity == sig.case_hit * 35 + sig.auto * 18 + sig.patch * 14 + sig.numbered * 12
                  + sig.short_print * 10 + sig.refractor * 6 + sig.rookie * 5
                  + sig.color * 3
                  + (IF sig.serial <= 0 THEN 0
                     ELSE IF sig.serial <= 10 THEN 18
                     ELSE IF sig.serial <= 25 THEN 12
                     ELSE IF sig.serial <= 50 THEN 7
                     ELSE IF sig.serial <= 99 THEN 4 ELSE 0)
        competition == Max(0, 18 - Min(bid_count, 18))
        \* time_factor * 3000: 22 - hours_left / (ENDING_SOON_HOURS / 22)
        time3000 == IF hours_left <= 0 THEN -60000
                    ELSE Max(0, 66000 - (hours_left * 66000) \div ENDING_SOON_HOURS)
    IN RoundDiv(profit * 27 + roi * 1800 + (rarity + competition) * 3000 + time3000, 30)

\* the ROI gate of normalize_row, wrongly left out
BelowMinRoi_Off(roi) == FALSE

\* `if roi < MIN_ROI: return None`
BelowMinRoi(roi) == roi < MIN_ROI

\* the profit gate of normalize_row, wrongly comparing against zero
BelowMinProfit_Zero(est_profit) == est_profit < 0

\* `if est_profit < MIN_EST_PROFIT_USD: return None`
BelowMinProfit(est_profit) == est_profit < MIN_EST_PROFIT_USD

\* build_links(item)["listing"]: `item.get("itemWebUrl") or ""`
build_links(item) == IF item.itemWebUrl = None THEN "" ELSE item.itemWebUrl

\* the title check, wrongly rejecting the title of a lot too
TitleRejected_Lots(title) == title = None \/ title = LotTitle

\* `if not title: return None`: the only check of normalize_row on the title
\* (title_has_sports_focus passes every title when SPORTS_KEYWORDS is unset)
TitleRejected(title) == title = None

\* normalize_row at hour t: <<>> (None) or <<row>>
normalize_row(item, t) ==
    LET ps == extract_price_and_ship(item)
        hrs == item.itemEndDate - t
        sig == rarity_signals(item.title)
        mv == estimate_market_value(item, ps.price, ps.ship)
        pr == compute_profit_and_roi(mv.market_value, ps.price, ps.ship)
    IN IF \/ TitleRejected(item.title)
          \/ ps.price <= 0
          \/ ps.price < MIN_BUY_PRICE_USD \/ ps.price > MAX_PRICE_USD
          \/ hrs <= 0 \/ hrs > ENDING_SOON_HOURS
          \/ mv.market_value <= 0
          \/ BelowMinProfit(pr.profit)
          \/ BelowMinRoi(pr.roi)
       THEN <<>>
       ELSE <<[item_id |-> item.itemId, title |-> item.title, listing_type |-> "auction",
               buy_price |-> ps.price, ship |-> ps.ship,
               market_value |-> mv.market_value, comp_median |-> mv.comp_median,
               est_profit |-> pr.profit, roi |-> pr.roi,
               score |-> compute_score(pr.profit, pr.roi, hrs, item.bidCount, sig),
               bid_count |-> item.bidCount, end_time |-> item.itemEndDate,
               item_url |-> build_links(item), est_method |-> mv.method]>>

RECURSIVE NormalizeAll(_, _)
\* `for item in items: row = normalize_row(item); if row: kept.append(row)`
NormalizeAll(items, t) ==
    IF items = <<>> THEN <<>>
    ELSE normalize_row(Head(items), t) \o NormalizeAll(Tail(items), t)

\* `if len(kept) >= MAX_TOTAL_RESULTS_TO_SAVE * 2: break`
Flooded(kept) == Len(kept) >= max_save * 2

\* the loops of run() carry the kept rows and, here, the searches requested so
\* far: (query number, offset, limit)
NoScan == [kept |-> <<>>, calls |-> <<>>]

\* the loop condition, wrongly ignoring the offset
PageLoopEnds_Never(offset) == FALSE

\* `while offset < MAX_ITEM_COUNT_PER_QUERY`
PageLoopEnds(offset) == offset >= MAX_ITEM_COUNT_PER_QUERY

RECURSIVE PageLoop(_, _, _, _)
\* the page loop for query number qi, from `offset`
PageLoop(qi, offset, acc, t) ==
    IF PageLoopEnds(offset) THEN acc
    ELSE LET limit == Min(PAGE_LIMIT, MAX_ITEM_COUNT_PER_QUERY - offset)
             items == ItemSummaries(qi, offset)
             asked == [acc EXCEPT !.calls = Append(acc.calls,
                          [q |-> qi, offset |-> offset, limit |-> limit])]
             acc2 == [asked EXCEPT !.kept = acc.kept \o NormalizeAll(items, t)]
         IN IF items = <<>> THEN asked
            ELSE IF Flooded(acc2.kept) THEN acc2
            ELSE PageLoop(qi, offset + limit, acc2, t)

RECURSIVE QueryLoop(_, _, _)
\* `for q in queries`
QueryLoop(qi, acc, t) ==
    IF qi > Len(Queries) THEN acc
    ELSE LET acc2 == PageLoop(qi, 0, acc, t)
         IN IF Flooded(acc2.kept) THEN acc2 ELSE QueryLoop(qi + 1, acc2, t)

\* the searches a run that starts at hour t requests when none of them fails
SearchCalls(t) == QueryLoop(1, NoScan, t).calls

\* the sort key (score, est_profit): a ranks strictly before b
Before(a, b) == a.score > b.score \/ (a.score = b.score /\ a.est_profit > b.est_profit)

RECURSIVE InsertDesc(_, _)
InsertDesc(s, x) ==
    IF s = <<>> THEN <<x>>
    ELSE IF Before(x, Head(s)) THEN <<x>> \o s ELSE <<Head(s)>> \o InsertDesc(Tail(s), x)

RECURSIVE SortKept(_)
\* kept.sort(key=..., reverse=True): stable, equal keys keep their order
SortKept(s) == IF s = <<>> THEN <<>> ELSE InsertDesc(SortKept(SubSeq(s, 1, Len(s) - 1)), s[Len(s)])

\* the cap, wrongly left out
Cap_Off(kept) == kept

\* kept = kept[:MAX_TOTAL_RESULTS_TO_SAVE]
Cap(kept) == SubSeq(kept, 1, Min(Len(kept), max_save))

\* the list run() hands to db_upsert_rows: the kept rows, sorted and capped
KeptRows(t) == Cap(SortKept(QueryLoop(1, NoScan, t).kept))

\* the prune, wrongly deleting every row
db_prune_old_All(table, t) == {}

\* db_prune_old at hour t: DELETE ... WHERE end_time IS NOT NULL AND end_time < now()
db_prune_old(table, t) == {r \in table : ~(r.end_time < t)}

RECURSIVE UpsertAll(_, _)
UpsertAll(table, rows) ==
    IF rows = <<>> THEN table ELSE UpsertAll(Upsert(table, Head(rows)), Tail(rows))

\* one INSERT ... ON CONFLICT statement fails when a proposed row has no
\* item_id (the primary key) or when two proposed rows have the same item_id
StatementFails(rows) ==
    \/ \E i \in 1..Len(rows) : rows[i].item_id = None
    \/ \E i, j \in 1..Len(rows) : i < j /\ rows[i].item_id = rows[j].item_id

RECURSIVE PagesFail(_)
\* execute_values sends the rows in statements of PAGE_SIZE rows
PagesFail(rows) ==
    IF rows = <<>> THEN FALSE
    ELSE \/ StatementFails(SubSeq(rows, 1, Min(Len(rows), PAGE_SIZE)))
         \/ PagesFail(SubSeq(rows, Min(Len(rows), PAGE_SIZE) + 1, Len(rows)))

\* db_upsert_rows: the table it leaves and whether it raised; nothing is
\* committed when a statement fails
db_upsert_rows(table, rows) ==
    IF PagesFail(rows) THEN [table |-> table, raised |-> TRUE]
    ELSE [table |-> UpsertAll(table, rows), raised |-> FALSE]

\* the database part of run(), in the order of the claim: upserts, then prune
Scanner_store_UpsertFirst(table, rows, tp) ==
    LET up == db_upsert_rows(table, rows)
    IN [table |-> db_prune_old(up.table, tp), raised |-> up.raised]

\* the database part of run(), lines 702-711: prune (committed), then upsert
Scanner_store(table, rows, tp) == db_upsert_rows(db_prune_old(table, tp), rows)

---------------------------------------------------------------------------
(* The scan programs as operations on the deals table *)

\* no function has been applied
NoRes == [kind |-> "none"]

NoRun == [kind |-> "none", before |-> {}, t |-> 0, again |-> FALSE, still |-> FALSE,
          status |-> "none", failed |-> 0]

\* the record of a run that started at hour t and took d hours: `again` when it
\* follows a successful run with no change of the marketplace and no pause in
\* between, `still` when the clock has not moved since that run started;
\* `failed`: the position, among the searches of the run, of the one the
\* endpoint answered with an error (0: none)
RunRecord(status, t, d) ==
    LET again == last.kind = "run" /\ last.status = "ok"
    IN [kind |-> "run", before |-> deals, t |-> t, again |-> again,
        still |-> d = 0 /\ (again => last.still), status |-> status, failed |-> 0]

\* app/db.py run(): the token, then process_query for every query
DbRun ==
    /\ variant = "db"
    /\ \E token_ok \in BOOLEAN :
        /\ deals' = IF token_ok THEN Db_run(deals, 1) ELSE deals
        /\ last' = RunRecord(IF token_ok THEN "ok" ELSE "error", clock, 0)
    /\ UNCHANGED <<variant, world, clock, max_save, res, authVars>>

\* app/main.py run(): the token, then the query loop
MainRun ==
    /\ variant = "main"
    /\ \E token_ok \in BOOLEAN :
        /\ deals' = IF token_ok THEN Main_run(deals, 1) ELSE deals
        /\ last' = RunRecord(IF token_ok THEN "ok" ELSE "error", clock, 0)
    /\ UNCHANGED <<variant, world, clock, max_save, res, authVars>>

\* ebay_browse_search raises RuntimeError on a status >= 400 and run() has no
\* handler: the exception leaves run() before the sort, the prune and the upsert
SearchFailure(k) ==
    /\ deals' = deals
    /\ last' = [RunRecord("error", clock, 0) EXCEPT !.failed = k]
    /\ clock' = clock

\* app/scanner.py run(): the query and page loops at hour `clock`, the sort and
\* the cap, then, d hours later, the prune and the upsert; or the k-th search of
\* the run fails
ScannerRun ==
    /\ variant = "scanner"
    /\ \/ \E d \in 0..MaxElapsed :
            /\ clock + d <= MaxClock
            /\ LET st == Scanner_store(deals, KeptRows(clock), clock + d)
               IN /\ deals' = st.table
                  /\ last' = RunRecord(IF st.raised THEN "error" ELSE "ok", clock, d)
            /\ clock' = clock + d
       \/ \E k \in 1..Len(SearchCalls(clock)) : SearchFailure(k)
    /\ UNCHANGED <<variant, world, max_save, res, authVars>>

\* a listing appears, changes or disappears on the marketplace
UpstreamChange ==
    /\ \E id \in ItemIds, l \in Listings(variant) \cup {NotListed} :
        /\ l # world[id]
        /\ world' = [world EXCEPT ![id] = l]
    /\ last' = NoRun
    /\ UNCHANGED <<variant, deals, clock, max_save, res, authVars>>

\* an hour passes between two runs of the scanner
ClockTick ==
    /\ variant = "scanner"
    /\ clock < MaxClock
    /\ clock' = clock + 1
    /\ last' = NoRun
    /\ UNCHANGED <<variant, world, deals, max_save, res, authVars>>

Init ==
    /\ variant \in {"db", "main", "scanner"}
    /\ world = NoWorld
    /\ deals = {}
    /\ clock = 0
    /\ max_save \in (IF variant = "scanner" THEN MaxSaveValues
                     ELSE {DEFAULT_MAX_TOTAL_RESULTS_TO_SAVE})
    /\ last = NoRun
    /\ res = NoRes
    /\ now = 0
    /\ cached = <<>>
    /\ env = [client_id |-> TRUE, client_secret |-> TRUE, oauth_token |-> TRUE]
    /\ upstream = "any"
    /\ pc = "idle"
    /\ op = None
    /\ attempts = 0
    /\ posts = 0
    /\ gets = 0
    /\ entry = [cached |-> <<>>, now |-> 0, client_id |-> FALSE, client_secret |-> FALSE]
    /\ out = [kind |-> "none"]

Next ==
    \/ DbRun
    \/ MainRun
    \/ ScannerRun
    \/ UpstreamChange
    \/ ClockTick

Spec == Init /\ [][Next]_vars

-----------------------------------------------------------------------------
(* The functions of the programs applied to one answer of the marketplace *)

\* the prices of sold comps a comps request returns (cents)
CompSamples == {<<>>, <<10000>>, <<1000, 100000>>,
                <<1000, 1000, 1000, 1000, 1000, 100000>>,
                <<10000, 10000, 10000, 100000, 10000, 10000>>}

\* the shippingOptions of an answer: their shippingCost values in the order
\* given (cents)
ShippingSamples == {<<>>, <<500, 0>>, <<0, 500>>, <<500, 300>>, <<300, 500>>}

\* answers whose fields vary: identifiers present or absent, the title of a
\* card or of a lot or none, shipping options, the outcome of the comps request
FieldListings(v) ==
    IF v = "scanner"
    THEN [listed : {TRUE}, price : {0, 2000}, shipping : ShippingSamples, endDate : {1},
          comps : CompSamples, at : {{1}}, pages : {1},
          hasId : BOOLEAN, title : {TheTitle, LotTitle, None}, hasUrl : BOOLEAN,
          shippingCost : {<<>>, <<300>>}, compsOk : BOOLEAN]
    ELSE [listed : {TRUE}, price : {0, 2000, 20000}, shipping : ShippingSamples,
          endDate : {0}, comps : {<<>>}, at : {{1}, {2}}, pages : {1},
          hasId : BOOLEAN, title : {TheTitle, LotTitle, None}, hasUrl : BOOLEAN,
          shippingCost : {<<>>, <<300>>}, compsOk : {TRUE}]

\* answers of scanner.py's searches that fill one, two or four pages
PagedListings ==
    [listed : {TRUE}, price : {2000}, shipping : {<<>>}, endDate : {1},
     comps : {<<10000>>, <<>>}, at : {{1}, {2}, {1, 2}}, pages : {1, 2, 4},
     hasId : {TRUE}, title : {TheTitle}, hasUrl : {TRUE},
     shippingCost : {<<>>}, compsOk : {TRUE}]

\* what the program writes for an item shown by query number qi: <<>> when it
\* skips the item, else the row
kept_row(item, qi) ==
    IF variant = "db"
    THEN IF Db_keeps(item, Queries[qi].cheap) THEN <<Db_row(item)>> ELSE <<>>
    ELSE IF variant = "main"
    THEN IF Main_keeps(item, Queries[qi].cheap) THEN <<Main_row(item)>> ELSE <<>>
    ELSE normalize_row(item, clock)

\* the buy shipping the program reads from an item
buy_shipping(item) ==
    IF variant = "db" THEN FirstShipping(item)
    ELSE IF variant = "main" THEN Main_extract_shipping(item)
    ELSE extract_price_and_ship(item).ship

\* the body of the item loop (process_query, main.py run, normalize_row)
\* applied to the item of listing id
NormalizeItem ==
    /\ \E id \in ItemIds, qi \in 1..Len(Queries) :
          /\ world[id].listed /\ qi \in world[id].at
          /\ res' = [kind |-> "row", id |-> id, q |-> qi, out |-> kept_row(RawItem(id), qi)]
    /\ UNCHANGED <<variant, world, deals, clock, max_save, last, authVars>>

\* _get_shipping, _extract_shipping, extract_price_and_ship
ExtractShipping ==
    /\ \E id \in ItemIds :
          /\ world[id].listed
          /\ res' = [kind |-> "ship", id |-> id, ship |-> buy_shipping(RawItem(id))]
    /\ UNCHANGED <<variant, world, deals, clock, max_save, last, authVars>>

\* estimate_market_value, as normalize_row calls it
EstimateValue ==
    /\ variant = "scanner"
    /\ \E id \in ItemIds :
          /\ world[id].listed
          /\ LET item == RawItem(id)
                 ps == extract_price_and_ship(item)
             IN res' = [kind |-> "estimate", id |-> id,
                        est |-> estimate_market_value(item, ps.price, ps.ship)]
    /\ UNCHANGED <<variant, world, deals, clock, max_save, last, authVars>>

\* the query and page loops of scanner.py run()
Paginate ==
    /\ variant = "scanner"
    /\ res' = [kind |-> "calls", calls |-> SearchCalls(clock),
               kept |-> Len(QueryLoop(1, NoScan, clock).kept)]
    /\ UNCHANGED <<variant, world, deals, clock, max_save, last, authVars>>

InitFn ==
    /\ variant \in {"db", "main", "scanner"}
    /\ \/ /\ world \in {[NoWorld EXCEPT !["i1"] = l] : l \in FieldListings(variant)}
          /\ max_save = DEFAULT_MAX_TOTAL_RESULTS_TO_SAVE
       \/ /\ variant = "scanner"
          /\ world \in {[NoWorld EXCEPT !["i1"] = l] : l \in PagedListings}
          /\ max_save \in MaxSaveValues
    /\ deals = {}
    /\ clock = 0
    /\ last = NoRun
    /\ res = NoRes
    /\ now = 0
    /\ cached = <<>>
    /\ env = [client_id |-> TRUE, client_secret |-> TRUE, oauth_token |-> TRUE]
    /\ upstream = "any"
    /\ pc = "idle"
    /\ op = None
    /\ attempts = 0
    /\ posts = 0
    /\ gets = 0
    /\ entry = [cached |-> <<>>, now |-> 0, client_id |-> FALSE, client_secret |-> FALSE]
    /\ out = [kind |-> "none"]

NextFn ==
    \/ NormalizeItem
    \/ ExtractShipping
    \/ EstimateValue
    \/ Paginate

SpecFn == InitFn /\ [][NextFn]_vars

-----------------------------------------------------------------------------
(* The credential provider as a state machine *)

InitAuth ==
    /\ now = 0
    /\ cached = <<>>
    /\ env \in [client_id : BOOLEAN, client_secret : BOOLEAN, oauth_token : BOOLEAN]
    /\ upstream \in {"any", "always429"}
    /\ pc = "idle"
    /\ op = None
    /\ attempts = 0
    /\ posts = 0
    /\ gets = 0
    /\ entry = [cached |-> <<>>, now |-> 0, client_id |-> FALSE, client_secret |-> FALSE]
    /\ out = [kind |-> "none"]
    /\ variant = "scanner"
    /\ world = NoWorld
    /\ deals = {}
    /\ clock = 0
    /\ max_save = DEFAULT_MAX_TOTAL_RESULTS_TO_SAVE
    /\ last = NoRun
    /\ res = NoRes

NextAuth ==
    \/ get_app_token
    \/ TokenAttempt
    \/ search_browse
    \/ SearchGet
    \/ ebay_browse_search
    \/ Tick
    \/ SetEnv

SpecAuth == InitAuth /\ [][NextAuth]_vars

\* the operations run to completion: a started request is never abandoned
SpecAuthFair == SpecAuth /\ WF_vars(TokenAttempt) /\ WF_vars(SearchGet)

-----------------------------------------------------------------------------
(* Claims about the credential provider and the request operations *)

\* the cache held, on entry, a token with more than the margin left
EntryValid ==
    entry.cached # <<>> /\ entry.cached[1].expires_at_epoch - entry.now > SafetyMargin

\* both secrets were set on entry
EntrySecrets == entry.client_id /\ entry.client_secret

\* get_app_token has just returned or raised (alone or inside search_browse)
TokenReturned == out.kind = "token"
TokenRaised == out.kind = "error" /\ out.why \in {"secrets", "oauth"}

\* C7 (as claimed): every token get_app_token returns, from the cache or fresh,
\* expires more than 60 seconds after the return.
C7_MarginOnEveryReturn ==
    TokenReturned => out.access_token.exp - now > SafetyMargin

\* C7 (amended): a token served from the cache expires more than 60 seconds after
\* the return; a freshly fetched token is returned with exactly the lifetime the
\* endpoint reported (expires_in, 7200 when absent), whether or not that exceeds
\* the margin, and is the token the cache now holds.
C7_MarginOnCachedReturn ==
    TokenReturned =>
        /\ out.from = "cache" => out.access_token.exp - now > SafetyMargin
        /\ out.from = "fetch" =>
              /\ out.access_token.exp - now \in {60, 90, DefaultExpiresIn}
              /\ cached = <<Token(out.access_token, out.access_token.exp)>>

\* C7 witness: a token fetched earlier is served from the cache at a later time
C7_Witness ==
    /\ TokenReturned /\ out.from = "cache"
    /\ now > 0 /\ posts = 0 /\ entry.now = now

\* C8 (as claimed): no HTTP call when the cache is valid, exactly one otherwise.
C8_ExactlyOneCall ==
    (TokenReturned \/ TokenRaised) =>
        /\ EntryValid => posts = 0
        /\ ~EntryValid => posts = 1

\* C8 (amended): no HTTP call when the cache holds a token with more than the
\* margin left, and none when the secrets are missing; otherwise one POST per pass
\* of the retry loop: exactly one when the first attempt succeeds, one more for
\* every failed attempt, three and an error when all three fail.
C8_CallsPerOutcome ==
    (TokenReturned \/ TokenRaised) =>
        /\ EntryValid => posts = 0 /\ TokenReturned /\ out.from = "cache"
        /\ ~EntryValid /\ ~EntrySecrets => posts = 0 /\ TokenRaised
        /\ ~EntryValid /\ EntrySecrets =>
              /\ posts \in 1..MaxTokenAttempts
              /\ TokenReturned => out.from = "fetch" /\ posts = attempts + 1
              /\ TokenRaised => out.why = "oauth" /\ posts = MaxTokenAttempts

\* C8 witness: a token is returned by the second POST of one call
C8_Witness == TokenReturned /\ out.from = "fetch" /\ posts = 2 /\ attempts = 1

\* C9 (as claimed): with a secret absent get_app_token fails in every cache state,
\* makes no HTTP call and leaves the cache unchanged.
C9_FailsWithoutSecrets ==
    ((TokenReturned \/ TokenRaised) /\ ~EntrySecrets) =>
        TokenRaised /\ posts = 0 /\ cached = entry.cached

\* C9 (amended): with a secret absent get_app_token fails, makes no HTTP call and
\* leaves the cache unchanged, unless the cache holds a token with more than the
\* margin left: that token is then returned, also without an HTTP call and with
\* the cache unchanged.
C9_FailsWithoutSecretsUnlessCached ==
    ((TokenReturned \/ TokenRaised) /\ ~EntrySecrets) =>
        /\ posts = 0
        /\ cached = entry.cached
        /\ ~EntryValid => TokenRaised /\ out.why = "secrets"
        /\ EntryValid => TokenReturned /\ out.from = "cache"

\* C9 witness: the call fails for want of one secret while a stale token is cached
C9_Witness ==
    /\ TokenRaised /\ out.why = "secrets"
    /\ entry.client_id /\ ~entry.client_secret
    /\ entry.cached # <<>>

\* an operation has completed under an upstream that only answers 429
Failed429 == upstream = "always429" /\ pc = "idle" /\ out.kind # "none"

\* C10: every request operation ends after a bounded number of attempts (at most
\* three POSTs of the token fetch, at most one GET of a search), a started
\* operation always completes, and under an upstream that always answers 429 the
\* result is an error.
C10_BoundedRetry ==
    /\ [](/\ posts <= MaxTokenAttempts
          /\ attempts <= MaxTokenAttempts
          /\ gets <= 1
          /\ Failed429 => out.kind = "error")
    /\ (pc # "idle") ~> (pc = "idle")

\* C10 witness: the token fetch gave up after three 429 answers
C10_Witness ==
    /\ Failed429 /\ op = "search_browse"
    /\ out.kind = "error" /\ posts = MaxTokenAttempts /\ gets = 0

-----------------------------------------------------------------------------
(* Claims about the deals table *)

\* a run has just ended without raising
RunOk == last.kind = "run" /\ last.status = "ok"

\* the ids some query of the program showed to the last run
Observed == {id \in ItemIds : world[id].listed /\ world[id].at # {}}

\* C1: the deals table never holds two rows with the same item_id.
C1_Unique ==
    \A r1 \in deals, r2 \in deals : r1.item_id = r2.item_id => r1 = r2

\* C1 witness: a run was shown a stored listing by two queries, with new values,
\* and has overwritten its row
C1_Witness ==
    /\ RunOk
    /\ \E r \in deals, b \in last.before :
          /\ r.item_id = b.item_id /\ r # b
          /\ world[r.item_id].at = {1, 2}

\* the minimum-profit threshold that applies to a stored row is met by it
MeetsStoredThreshold(r) ==
    IF variant = "db" THEN r.est_profit >= Db_MIN_PROFIT * 4
    ELSE IF variant = "main"
    THEN \/ r.est_profit >= MIN_PROFIT_MAIN * 4
         \/ /\ r.est_profit >= MIN_PROFIT_CHEAP * 4
            /\ r.buy_price > 0 /\ r.buy_price <= CHEAP_MAX_BUY_PRICE
            /\ BuyIn400(r.buy_price, r.buy_shipping) <= CHEAP_MAX_BUY_IN * 4
    ELSE r.est_profit >= MIN_EST_PROFIT_USD

\* C2: no stored deal has an estimated profit below the threshold of its program
\* (20 dollars in db.py; 25 dollars, or 10 for a cheap candidate, in main.py; 10
\* dollars in scanner.py), also after a stored listing is seen again with a
\* lower profit.
C2_NoDealBelowThreshold == \A r \in deals : MeetsStoredThreshold(r)

\* the profit a run of db.py computes now for listing id is below its threshold
Db_NowBelow(id) ==
    Profit400(world[id].price, FirstShipping(RawItem(id)),
              resale_multiplier(world[id].price)) < Db_MIN_PROFIT * 4

\* C2 witness: db.py has run over a stored listing whose profit is now below the
\* threshold; the row stays, with the figures of the earlier run
C2_Witness ==
    /\ variant = "db" /\ RunOk
    /\ \E r \in deals :
          /\ r.item_id \in Observed
          /\ Db_NowBelow(r.item_id)
          /\ r \in last.before

\* the profit the program computes for listing id (db.py, main.py: 1/400 dollar;
\* scanner.py: cents)
ProfitOf(id) ==
    IF variant = "db"
    THEN Db_expected_profit(world[id].price, FirstShipping(RawItem(id))).profit
    ELSE IF variant = "main"
    THEN Main_expected_profit(world[id].price, FirstShipping(RawItem(id)))
    ELSE LET ps == extract_price_and_ship(RawItem(id))
             mv == estimate_market_value(RawItem(id), ps.price, ps.ship)
         IN compute_profit_and_roi(mv.market_value, ps.price, ps.ship).profit

\* scanner.py: the roi it computes for listing id, in hundredths
RoiOf(id) ==
    LET ps == extract_price_and_ship(RawItem(id))
        mv == estimate_market_value(RawItem(id), ps.price, ps.ship)
    IN compute_profit_and_roi(mv.market_value, ps.price, ps.ship).roi

\* scanner.py: the score of listing id for a run that started at hour t
ScoreOf(id, t) ==
    compute_score(ProfitOf(id), RoiOf(id), world[id].endDate - t, 0,
                  rarity_signals(TheTitle))

\* the profit of listing id meets the threshold for its cost
MeetsThreshold(id) ==
    IF variant = "db" THEN ProfitOf(id) >= Db_MIN_PROFIT * 4
    ELSE IF variant = "main"
    THEN \/ ProfitOf(id) >= MIN_PROFIT_MAIN * 4
         \/ /\ ProfitOf(id) >= MIN_PROFIT_CHEAP * 4
            /\ is_cheap_candidate(world[id].price, FirstShipping(RawItem(id)))
    ELSE ProfitOf(id) >= MIN_EST_PROFIT_USD

\* listing id passed the filters that come before the profit gate in the last
\* run: the price ceiling of a cheap query (db.py, main.py); the price range and
\* the ending-soon window (scanner.py)
Candidate(id) ==
    /\ id \in Observed
    /\ IF variant = "db"
       THEN \E qi \in world[id].at :
               ~(Queries[qi].cheap /\ world[id].price > Db_CHEAP_MAX_PRICE)
       ELSE IF variant = "main"
       THEN \E qi \in world[id].at :
               ~(Queries[qi].cheap
                 /\ (\/ world[id].price > CHEAP_MAX_BUY_PRICE
                     \/ BuyIn400(world[id].price, FirstShipping(RawItem(id))) > CHEAP_MAX_BUY_IN * 4))
       ELSE /\ world[id].price >= MIN_BUY_PRICE_USD /\ world[id].price <= MAX_PRICE_USD
            /\ world[id].endDate - last.t > 0
            /\ world[id].endDate - last.t <= ENDING_SOON_HOURS

\* the store holds, for listing id, the row the last run computes for it
Persisted(id) ==
    \E r \in deals :
        /\ r.item_id = id
        /\ r.buy_price = world[id].price
        /\ r.est_profit = ProfitOf(id)
        /\ variant = "scanner" =>
              /\ r.end_time = world[id].endDate
              /\ r.score = ScoreOf(id, last.t)

\* C3 (as claimed): a candidate seen by a run is persisted by that run exactly
\* when its estimated profit meets the threshold; neither the roi, nor the score,
\* nor the cap drops a candidate that meets it.
C3_ProfitIsTheSingleGate ==
    RunOk => \A id \in ItemIds :
                Candidate(id) => (Persisted(id) <=> MeetsThreshold(id))

\* scanner.py: candidate a ranks strictly before candidate b in the sort of run()
RanksBefore(a, b) ==
    \/ ScoreOf(a, last.t) > ScoreOf(b, last.t)
    \/ ScoreOf(a, last.t) = ScoreOf(b, last.t) /\ ProfitOf(a) > ProfitOf(b)

\* the candidate passes every gate of normalize_row
PassesGates(id) ==
    Candidate(id) /\ MeetsThreshold(id) /\ (variant = "scanner" => RoiOf(id) >= MIN_ROI)

\* scanner.py: fewer than MAX_TOTAL_RESULTS_TO_SAVE other kept candidates rank
\* before or level with candidate id
WithinCap(id) ==
    Cardinality({o \in ItemIds \ {id} : PassesGates(o) /\ ~RanksBefore(id, o)}) < max_save

\* C3 (amended): meeting the profit threshold is necessary for a candidate to be
\* persisted, and in db.py and main.py it is sufficient.  In scanner.py the
\* candidate must also have an roi of at least MIN_ROI, and it is persisted when
\* it is within the first MAX_TOTAL_RESULTS_TO_SAVE rows of the descending order
\* of (score, est_profit); a candidate below MIN_ROI is never written, whatever
\* its profit.
C3_ProfitRoiAndCapGate ==
    RunOk => \A id \in ItemIds : Candidate(id) =>
        /\ Persisted(id) => MeetsThreshold(id)
        /\ variant # "scanner" => (MeetsThreshold(id) => Persisted(id))
        /\ variant = "scanner" =>
              /\ PassesGates(id) /\ WithinCap(id) => Persisted(id)
              /\ ~(RoiOf(id) >= MIN_ROI) => ~Persisted(id)

\* C3 witness: scanner.py has run over a candidate whose profit meets the
\* threshold and whose roi is below MIN_ROI, and has not stored it
C3_Witness ==
    /\ variant = "scanner" /\ RunOk
    /\ \E id \in ItemIds :
          /\ Candidate(id) /\ MeetsThreshold(id)
          /\ RoiOf(id) < MIN_ROI
          /\ id \notin IdsOf(deals)

\* a row the store held before the last run whose listing that run did not see,
\* or saw and rejected
LeftOut(b) == b \in last.before /\ ~PassesGates(b.item_id)

\* C4 (as claimed): a stored deal whose listing is absent from the next run's
\* observations, or no longer qualifies in it, is gone from the store when that
\* run has completed.
C4_AbsentDealIsRemoved ==
    RunOk => \A b \in last.before : LeftOut(b) => b.item_id \notin IdsOf(deals)

\* C4 (amended): a stored deal whose listing is absent from the next run's
\* observations, or no longer qualifies in it, is left as it is by db.py and
\* main.py, which delete nothing; scanner.py removes it exactly when the run
\* reaches its prune (no search of the run raised) and the deal's end_time is
\* earlier than the time of the prune, whether or not the listing was observed.
C4_RemovedOnlyWhenEnded ==
    last.kind = "run" =>
        \A b \in last.before :
            LeftOut(b) => (b \in deals <=> \/ variant # "scanner"
                                           \/ last.failed # 0
                                           \/ b.end_time >= clock)

\* C4 witness: scanner.py has run after two stored listings left the marketplace;
\* the one whose auction had ended is gone, the other is still in the store
C4_Witness ==
    /\ variant = "scanner" /\ RunOk
    /\ \E b1 \in last.before, b2 \in last.before :
          /\ b1.item_id \notin Observed /\ b2.item_id \notin Observed
          /\ b1 \notin deals
          /\ b2 \in deals

\* C5 (as claimed): a second run over unchanged upstream responses leaves the
\* store as the first run left it, with the same item_ids and field values.
C5_RunTwiceSameStore ==
    last.kind = "run" /\ last.again => deals = last.before

\* C5 (amended): a second run of db.py or main.py over unchanged upstream
\* responses leaves the store as the first run left it.  For scanner.py this
\* holds when no time has passed since the first run started; otherwise the
\* score of a row (which falls with the hours left), the ending-soon filter and
\* the prune can change the store.
C5_RunTwiceSameStoreAtSameTime ==
    last.kind = "run" /\ last.again =>
        (variant # "scanner" \/ last.still => deals = last.before)

\* C5 witness: a second successful run over unchanged responses, with rows in
\* the store; scanner.py at the hour of its first run
C5_Witness ==
    /\ RunOk /\ last.again /\ deals # {}
    /\ variant = "scanner" /\ last.still /\ clock = last.t

\* C6: in a run of scanner.py the prune acts after the run's upserts, so every
\* row the run wrote or refreshed has been judged by the prune: no row the run
\* leaves in the store has an end_time earlier than the time of the prune, and
\* so none is a row the prune deleted and the run inserted again.
C6_PruneAfterUpserts ==
    (variant = "scanner" /\ RunOk) => \A r \in deals : ~(r.end_time < clock)

\* C11: whatever search of a run of scanner.py the endpoint answers with an
\* error (a status >= 400 on any query and page), run() catches the failure and
\* returns normally, so that what the other searches kept is persisted: no run
\* in which a search failed ends with an exception.
C11_SearchFailureIsCaught ==
    (last.kind = "run" /\ last.failed # 0) => last.status = "ok"

\* the listing the last function application was about, as scanner.py reads it
ResItem == RawItem(res.id)
ResCost == extract_price_and_ship(ResItem)
ResPositives == PositivePrices(world[res.id].comps)

\* the fallback estimate for that listing: (buy + ship) times the multiplier of
\* its title's rarity signals, cents
ResFallback ==
    RoundDiv((ResCost.price + ResCost.ship)
             * compute_fallback_multiplier(rarity_signals(ResItem.title)), 100)

\* normalize_row keeps a listing valued at mv: the checks on title, price,
\* ending window, value, profit and roi
KeptAtValue(mv) ==
    LET pr == compute_profit_and_roi(mv, ResCost.price, ResCost.ship)
    IN /\ ResItem.title # None
       /\ ResCost.price >= MIN_BUY_PRICE_USD /\ ResCost.price <= MAX_PRICE_USD
       /\ ResItem.itemEndDate - clock > 0
       /\ ResItem.itemEndDate - clock <= ENDING_SOON_HOURS
       /\ mv > 0
       /\ pr.profit >= MIN_EST_PROFIT_USD
       /\ pr.roi >= MIN_ROI

\* scanner.py has applied estimate_market_value / normalize_row to a listing
Estimated == variant = "scanner" /\ res.kind = "estimate"
Normalized == variant = "scanner" /\ res.kind = "row"

C13_SmallSampleSkipsCandidate ==
    /\ (Estimated /\ world[res.id].compsOk /\ Len(ResPositives) <= 1) =>
           res.est.market_value = 0
    /\ (Normalized /\ world[res.id].compsOk /\ Len(ResPositives) <= 1) => res.out = <<>>

\* C13 (amended): there is no minimum sample.  With no positive comp price the
\* estimate is the fallback estimate; with a single one it is 0.92 times that
\* price, method "sold_comps"; the candidate is kept exactly when it passes the
\* checks of normalize_row at that value.
C13_SmallSampleIsValued ==
    LET one == Len(ResPositives) = 1
        mv == IF one THEN RoundDiv(ResPositives[1] * 92, 100) ELSE ResFallback
    IN /\ (Estimated /\ world[res.id].compsOk /\ Len(ResPositives) <= 1) =>
              /\ res.est.market_value = mv
              /\ res.est.method = (IF one THEN "sold_comps" ELSE "fallback")
       /\ (Normalized /\ world[res.id].compsOk /\ Len(ResPositives) <= 1) =>
              (res.out # <<>> <=> KeptAtValue(mv))

\* C13 witness: a listing with a single comp of 100 dollars is kept at 92
C13_Witness ==
    /\ Normalized /\ world[res.id].compsOk /\ world[res.id].comps = <<10000>>
    /\ res.out # <<>> /\ res.out[1].market_value = 9200

\* the positions of the sample that hold the value v
Holding(v) == {i \in 1..Len(ResPositives) : ResPositives[i] = v}

\* all prices of the sample but at most one are v
MajorityValue(v) == Cardinality(Holding(v)) >= Len(ResPositives) - 1

\* v is the element of rank n \div 2 (from 0) of the sample in ascending order
UpperMedian(v) ==
    LET n == Len(ResPositives)
    IN /\ Holding(v) # {}
       /\ Cardinality({i \in 1..n : ResPositives[i] < v}) <= n \div 2
       /\ Cardinality({i \in 1..n : ResPositives[i] <= v}) > n \div 2

\* C14 (as claimed): for a comp sample of at least the minimum size (five), the
\* estimate is the median left after trimming each tail, so that with a single
\* extreme outlier, as in [10, 10, 10, 10, 10, 1000], the estimate is the value
\* of the majority of the sample.
C14_EstimateIsTrimmedMedian ==
    (Estimated /\ world[res.id].compsOk /\ Len(ResPositives) >= 5) =>
        \A i \in 1..Len(ResPositives) :
            MajorityValue(ResPositives[i]) => res.est.market_value = ResPositives[i]

\* C14 (amended): for every sample with at least one positive price, the comp
\* median is the upper middle element prices[n // 2] of the sorted sample,
\* nothing is trimmed, and the estimate is 0.92 times the comp median.  In a
\* sample of three or more a single outlier leaves the comp median at the value
\* of the others (9.20 is the estimate for [10, 10, 10, 10, 10, 1000]); in a
\* sample of two the comp median is the larger price.
C14_UpperMedianWithHaircut ==
    (Estimated /\ world[res.id].compsOk /\ Len(ResPositives) >= 1) =>
        LET n == Len(ResPositives)
        IN /\ res.est.method = "sold_comps"
           /\ UpperMedian(res.est.comp_median)
           /\ res.est.market_value = RoundDiv(res.est.comp_median * 92, 100)
           /\ \A i \in 1..n :
                  (n >= 3 /\ MajorityValue(ResPositives[i])) =>
                      res.est.comp_median = ResPositives[i]
           /\ n = 2 => \A i \in 1..n : res.est.comp_median >= ResPositives[i]

\* C14 witness: the estimate for five comps of 100 dollars and one of 1000,
\* returned in no particular order, is 92 dollars
C14_Witness ==
    /\ Estimated /\ world[res.id].compsOk
    /\ world[res.id].comps = <<10000, 10000, 10000, 100000, 10000, 10000>>
    /\ res.est.comp_median = 10000 /\ res.est.market_value = 9200

\* C15: a listing that lacks an item id, a title or a URL is rejected by every
\* program: no row that a program keeps for writing has an absent item_id, an
\* absent title or an absent (empty) item_url.
C15_KeptRowsHaveIdentifiers ==
    (res.kind = "row" /\ res.out # <<>>) =>
        /\ res.out[1].item_id # None
        /\ res.out[1].title # None
        /\ res.out[1].item_url \notin {None, ""}

\* the value estimate_market_value gives the listing: 0.92 times the upper
\* median of its positive comps, or the fallback estimate without them
ResValue ==
    LET prices == IF world[res.id].compsOk THEN SortAsc(ResPositives) ELSE <<>>
    IN IF prices # <<>> THEN RoundDiv(prices[(Len(prices) \div 2) + 1] * 92, 100)
       ELSE ResFallback

\* a program has applied the body of its item loop to a listing titled as a lot
LotNormalized == res.kind = "row" /\ world[res.id].title = LotTitle

\* C16 (as claimed): a listing whose title matches the lot heuristics ("Huge
\* lot of 50 rookie cards") is rejected by the normalizer: no row is kept for it.
C16_LotsAreRejected == LotNormalized => res.out = <<>>

\* C16 (amended): no program looks for lots in the title.  db.py and main.py
\* keep a listing titled as a lot exactly when they keep the same listing under
\* the title of a single card; scanner.py estimates its value and keeps it
\* exactly when it passes the checks of normalize_row at that value.
C16_LotsAreTreatedAsCards ==
    LotNormalized =>
        IF variant = "scanner"
        THEN /\ res.out # <<>> <=> KeptAtValue(ResValue)
             /\ res.out # <<>> => res.out[1].market_value = ResValue
        ELSE res.out # <<>> <=> kept_row([ResItem EXCEPT !.title = TheTitle], res.q) # <<>>

\* C16 witness: scanner.py keeps a 20 dollar lot valued at 92 dollars by its comps
C16_Witness ==
    /\ variant = "scanner" /\ LotNormalized
    /\ res.out # <<>> /\ res.out[1].title = LotTitle
    /\ res.out[1].est_method = "sold_comps" /\ res.out[1].market_value = 9200

\* C17: the shipping cost a program extracts from a listing with shipping
\* options is the minimum of the options' shippingCost values, a minimum of 0
\* included, whatever the order of the options.
C17_CheapestShipping ==
    (res.kind = "ship" /\ world[res.id].shipping # <<>>) =>
        /\ \E i \in 1..Len(world[res.id].shipping) : res.ship = world[res.id].shipping[i]
        /\ \A i \in 1..Len(world[res.id].shipping) : res.ship <= world[res.id].shipping[i]

\* the total cost of acquiring the listing, as the program computes it: the
\* buy-in of db.py and main.py (price with tax, plus shipping; 1/400 dollar),
\* buy + ship of scanner.py (cents)
TotalCost ==
    IF variant = "scanner" THEN ResCost.price + ResCost.ship
    ELSE BuyIn400(world[res.id].price, buy_shipping(ResItem))

\* the roi of the row is a number (never None, which main.py alone can
\* produce), its profit divided by the total cost: truncated to 1/10000 in
\* db.py and main.py; in scanner.py both are rounded to hundredths
RoiIsProfitOverCost(row) ==
    IF variant = "db" THEN row.roi = TruncDiv(row.est_profit * 10000, TotalCost)
    ELSE IF variant = "main"
    THEN row.roi = <<TruncDiv(row.est_profit * 10000, TotalCost)>>
    ELSE LET diff == row.roi * TotalCost - 100 * row.est_profit
         IN 2 * diff <= TotalCost + 100 /\ -2 * diff <= TotalCost + 100

Calls == res.calls

\* the rows normalize_row keeps from the page that search number i returned
KeptFrom(i) == NormalizeAll(ItemSummaries(Calls[i].q, Calls[i].offset), clock)

RECURSIVE KeptUpTo(_)
\* the number of rows kept after the first i searches
KeptUpTo(i) == IF i = 0 THEN 0 ELSE KeptUpTo(i - 1) + Len(KeptFrom(i))

\* C20: the searches of a run go through the queries in order; those of one
\* query have the offsets 0, 50, 100, ..., each below MAX_ITEM_COUNT_PER_QUERY
\* with offset + limit at most MAX_ITEM_COUNT_PER_QUERY, and end with the first
\* empty page; the run requests finitely many searches, and none once the kept
\* list has 2 * MAX_TOTAL_RESULTS_TO_SAVE rows.
C20_PaginationBounded ==
    res.kind = "calls" =>
        /\ Len(Calls) <= Len(Queries) * (MAX_ITEM_COUNT_PER_QUERY \div PAGE_LIMIT)
        /\ \A i \in 1..Len(Calls) :
              /\ Calls[i].offset >= 0
              /\ Calls[i].offset < MAX_ITEM_COUNT_PER_QUERY
              /\ Calls[i].limit > 0
              /\ Calls[i].offset + Calls[i].limit <= MAX_ITEM_COUNT_PER_QUERY
              /\ Calls[i].offset % PAGE_LIMIT = 0
              /\ IF i > 1 /\ Calls[i - 1].q = Calls[i].q
                 THEN /\ Calls[i].offset = Calls[i - 1].offset + PAGE_LIMIT
                      /\ ItemSummaries(Calls[i - 1].q, Calls[i - 1].offset) # <<>>
                 ELSE /\ Calls[i].offset = 0
                      /\ i > 1 => Calls[i - 1].q < Calls[i].q
              /\ i > 1 => KeptUpTo(i - 1) < 2 * max_save
        /\ res.kept = KeptUpTo(Len(Calls))

\* C20 witness: a query whose answers fill four pages is asked at the offsets
\* 0 to 150 and the next query is asked after it
C20_Witness ==
    /\ res.kind = "calls" /\ Len(Calls) >= 5
    /\ \E i \in 1..Len(Calls) : Calls[i].offset = 150 /\ Calls[i].limit = 50
    /\ Calls[Len(Calls)].q = 2

\* the rows the program proposes for the listings now on the marketplace
Candidates ==
    UNION {{kept_row(RawItem(id), qi)[i] : i \in 1..Len(kept_row(RawItem(id), qi))} :
           id \in {l \in ItemIds : world[l].listed}, qi \in 1..Len(Queries)}

\* the store after the program has upserted `rows` into `table` within one
\* run: one statement per row in db.py and main.py, one batch in scanner.py
Written(table, rows) ==
    IF variant = "scanner" THEN db_upsert_rows(table, rows).table
    ELSE UpsertAll(table, rows)

\* C18: upserting two candidates with different item_ids gives the same store
\* in either order; upserting the same candidate twice, in two calls or within
\* one run, gives the same store as upserting it once; and an upsert leaves the
\* rows of the other item_ids as they are.
C18_UpsertAlgebra ==
    \A r1 \in Candidates :
        /\ \A r2 \in Candidates :
              r1.item_id # r2.item_id =>
                  /\ Written(deals, <<r1, r2>>) = Written(deals, <<r2, r1>>)
                  /\ Written(Written(deals, <<r1>>), <<r2>>)
                         = Written(Written(deals, <<r2>>), <<r1>>)
        /\ Written(Written(deals, <<r1>>), <<r1>>) = Written(deals, <<r1>>)
        /\ Written(deals, <<r1, r1>>) = Written(deals, <<r1>>)
        /\ \A d \in deals : d.item_id # r1.item_id => d \in Written(deals, <<r1>>)

\* the list of kept rows the last run of scanner.py passed to db_upsert_rows
LastBatch == KeptRows(last.t)

\* C21: the list of kept rows that a run of scanner.py passes to
\* db_upsert_rows never holds two rows with the same item_id, also when a
\* listing is returned by several queries or on several pages.
C21_BatchDistinct ==
    (variant = "scanner" /\ last.kind = "run" /\ last.failed = 0) =>
        \A i, j \in 1..Len(LastBatch) :
            i # j => LastBatch[i].item_id # LastBatch[j].item_id

=============================================================================
